---- MODULE Spec2Model ----
(***************************************************************************)
(* SmartEAS disaster-validation pipeline.                                  *)
(*                                                                         *)
(*   backend/src/handlers/ai-disaster-analyzer.ts       (classifier)       *)
(*   backend/src/handlers/weather-disaster-validator.ts (validator/fusion) *)
(*   backend/src/handlers/data-pipeline-processor.ts    (HTTP pipeline)    *)
(*                                                                         *)
(* Numbers.  JavaScript numbers are modelled as exact rationals <<n, d>>   *)
(* (d > 0, lowest terms) wherever the code divides (the mean of the        *)
(* confirmed votes); every other quantity is an integer.  Magnitudes are   *)
(* in tenths and distances in multiples of 10 km so that the USGS vote     *)
(* confidence of the code is an integer.                                   *)
(***************************************************************************)
EXTENDS Integers, Sequences, FiniteSets, TLC

VARIABLES
    \* ---- stream-triggered pipeline (Spec) ----
    store,          \* events table: id -> item or NoItem
    alerts,         \* validated_disaster_alert items put into the events table
    aStream,        \* change records not yet seen by the analyzer handler
    vStream,        \* change records not yet seen by the validator handler
    modelCalls,     \* number of language-model invocations so far
    ingests,        \* number of PutItem calls of the ingestion side so far
    lastValidation, \* what the last validateWithOfficialSources call did
    handlerStats,   \* errors the handlers counted, and whether one failed
    \* ---- fusion as a function (SpecFusion) ----
    fIn,            \* the validation record handed to fusion
    fOut,           \* the validation record after lines 189-191
    fPc,
    \* ---- classifier as a function (SpecClassify) ----
    cText,          \* the input text
    cOutcome,       \* what the language model does when called
    cEntry,         \* "none" | "stream" | "http"
    cResult,        \* the analysis returned
    cCalls,         \* model invocations made by the call
    \* ---- data pipeline processor (SpecPipeline) ----
    pEvents,        \* the events in flight between the steps
    pPc,            \* "scraped" | "analysed" | "validated" | "stored"
    pEventsTable,   \* EVENTS_TABLE
    pAlertsTable,   \* ALERTS_TABLE
    \* ---- earthquake branch as a function (SpecSeismic) ----
    qUsgs,          \* what the USGS catalogue answers
    qEmsc,          \* what the EMSC catalogue answers
    qOut,           \* the validation record being filled
    qPc             \* "idle" | "input" | "usgs" | "emsc"

streamVars   == <<store, alerts, aStream, vStream, modelCalls, ingests,
                  lastValidation, handlerStats>>
fusionVars   == <<fIn, fOut, fPc>>
classifyVars == <<cText, cOutcome, cEntry, cResult, cCalls>>
pipelineVars == <<pEvents, pPc, pEventsTable, pAlertsTable>>
seismicVars  == <<qUsgs, qEmsc, qOut, qPc>>
vars == <<streamVars, fusionVars, classifyVars, pipelineVars, seismicVars>>

NULL == "null"

\* ------------------------------------------------------------------------
\* Bounds of the model
\* ------------------------------------------------------------------------
MaxVotes == 3       \* longest vote list handed to fusion in SpecFusion
MaxRecords == 1     \* most records one source returns in one validation run
MaxIngests == 1     \* PutItem calls of the ingestion side
MaxPosts == 2       \* posts one run of the data pipeline scrapes

\* ------------------------------------------------------------------------
\* Arithmetic
\* ------------------------------------------------------------------------
Abs(x) == IF x < 0 THEN 0 - x ELSE x

RECURSIVE GCD(_, _)
GCD(a, b) == IF b = 0 THEN a ELSE GCD(b, a % b)

\* the number n / d
Rat(n, d) == LET g == GCD(Abs(n), d) IN <<n \div g, d \div g>>

RInt(k) == <<k, 1>>
RGt(r, k) == r[1] > k * r[2]
RLt(r, k) == r[1] < k * r[2]
RGe(r, k) == r[1] >= k * r[2]
RLe(r, k) == r[1] <= k * r[2]
\* Math.min(r, k)
RMin(r, k) == IF RLe(r, k) THEN r ELSE RInt(k)

Min(a, b) == IF a <= b THEN a ELSE b
Max(a, b) == IF a >= b THEN a ELSE b

RECURSIVE SumConfidence(_)
SumConfidence(s) ==
    IF s = <<>> THEN 0 ELSE Head(s).confidence + SumConfidence(Tail(s))

\* all sequences over S of length 0..n
SeqUpTo(S, n) == UNION {[1..k -> S] : k \in 0..n}

\* ------------------------------------------------------------------------
\* Validator: the validation record and fusion
\* ------------------------------------------------------------------------
ConfirmThreshold == 70
AlertThreshold == 80

NewValidation ==
    [isValidated |-> TRUE,
     disasterConfirmed |-> FALSE,
     confidence |-> RInt(0),
     validationSources |-> <<>>,
     officialAlerts |-> <<>>,
     meteorologicalData |-> <<>>,
     seismicData |-> <<>>,
     severity |-> "low",
     recommendations |-> <<>>]

Vote(src, ok, conf) == [source |-> src, confirmed |-> ok, confidence |-> conf]

IsConfirmed(v) == v.confirmed

calculateOverallConfidenceAllVotes(validation) ==
    LET votes == validation.validationSources
        n == Len(votes)
    IN  IF n = 0 THEN RInt(0)
        ELSE IF n > 1
             THEN RMin(Rat(SumConfidence(votes) + (n - 1) * 10 * n, n), 95)
             ELSE Rat(SumConfidence(votes), n)

\* the confirmed votes' total divided by the number of all votes
calculateOverallConfidenceOverAllSources(validation) ==
    LET votes == validation.validationSources
        confirmed == SelectSeq(votes, IsConfirmed)
        confirmedSources == Len(confirmed)
        totalConfidence == SumConfidence(confirmed)
    IN  IF confirmedSources = 0 THEN RInt(0)
        ELSE IF confirmedSources > 1
             THEN RMin(Rat(totalConfidence
                             + (confirmedSources - 1) * 10 * Len(votes),
                           Len(votes)), 95)
             ELSE Rat(totalConfidence, Len(votes))

\* the mean of the confirmed votes without the boost of line 650
calculateOverallConfidenceNoBoost(validation) ==
    LET confirmed == SelectSeq(validation.validationSources, IsConfirmed)
    IN  IF Len(confirmed) = 0 THEN RInt(0)
        ELSE Rat(SumConfidence(confirmed), Len(confirmed))

calculateOverallConfidence(validation) ==
    IF Len(validation.validationSources) = 0 THEN RInt(0)
    ELSE LET confirmed == SelectSeq(validation.validationSources, IsConfirmed)
             confirmedSources == Len(confirmed)
             totalConfidence == SumConfidence(confirmed)
         IN  IF confirmedSources = 0 THEN RInt(0)
             ELSE IF confirmedSources > 1
                  \* avgConfidence + (confirmedSources - 1) * 10, capped at 95
                  THEN RMin(Rat(totalConfidence
                                  + (confirmedSources - 1) * 10 * confirmedSources,
                                confirmedSources), 95)
                  ELSE Rat(totalConfidence, confirmedSources)

\* lines 189-191 were they to leave a branch's own confirmation in place
FuseKeepBranch(validation) ==
    LET c == calculateOverallConfidence(validation)
    IN  IF validation.disasterConfirmed
        THEN [validation EXCEPT !.confidence = c]
        ELSE [validation EXCEPT !.confidence = c,
                                !.disasterConfirmed = RGt(c, ConfirmThreshold)]

\* validateWithOfficialSources lines 189-191: fusion overwrites whatever a
\* branch assigned to confidence and disasterConfirmed
Fuse(validation) ==
    LET c == calculateOverallConfidence(validation)
    IN  [validation EXCEPT !.confidence = c,
                           !.disasterConfirmed = RGt(c, ConfirmThreshold)]

\* ------------------------------------------------------------------------
\* Validator: what the external sources answer
\*
\* A record of a catalogue carries its distance from the geocoded point
\* (calculateDistance of the record's coordinates), so coordinates themselves
\* are not modelled.
\* ------------------------------------------------------------------------
\* USGS features: magnitude in tenths, distance in km
QuakeSamples ==
    {[mag10 |-> 72, dist |-> 10],
     [mag10 |-> 40, dist |-> 500],
     [mag10 |-> 45, dist |-> 510]}

\* NOAA alert features; event = NULL is a feature without properties.event
AlertSamples ==
    {[event |-> "Severe Thunderstorm Warning", severity |-> "Severe"],
     [event |-> "Flood Watch", severity |-> "Extreme"],
     [event |-> NULL, severity |-> "Moderate"]}

\* OpenWeather current conditions: weather[0].main, wind.speed, rain['1h']
WeatherSamples ==
    {[main |-> "Rain", wind |-> 5, rain1h |-> 12],
     [main |-> "Clear", wind |-> 40, rain1h |-> 0]}

\* FIRMS rows: distance in km, detection confidence
FireSamples ==
    {[dist |-> 10, confidence |-> 80],
     [dist |-> 10, confidence |-> 100],
     [dist |-> 60, confidence |-> 90],
     [dist |-> 20, confidence |-> 25]}

\* a source either answers with records, or throws after the records it
\* could still process (fails); a failed request has processed none
USGSResponses == [records : SeqUpTo(QuakeSamples, MaxRecords), fails : BOOLEAN]
NOAAResponses == [records : SeqUpTo(AlertSamples, MaxRecords), fails : BOOLEAN]
FIRMSResponses ==
    {r \in [records : SeqUpTo(FireSamples, MaxRecords), fails : BOOLEAN] :
        r.fails => r.records = <<>>}
EMSCResponses ==
    {r \in [count : 0..MaxRecords, fails : BOOLEAN] : r.fails => r.count = 0}
WeatherGovResponses ==
    {r \in [count : 0..MaxRecords, fails : BOOLEAN] : r.fails => r.count = 0}
OpenWeatherResponses ==
    {[kind |-> "nokey", data |-> NULL], [kind |-> "error", data |-> NULL]}
      \cup {[kind |-> "data", data |-> w] : w \in WeatherSamples}

NoRecords == [records |-> <<>>, fails |-> FALSE]
NoCount == [count |-> 0, fails |-> FALSE]
NoWeather == [kind |-> "nokey", data |-> NULL]

\* ------------------------------------------------------------------------
\* Validator: earthquake branch
\* ------------------------------------------------------------------------
USGSConfidence(q) ==
    LET c0 == 90
        c1 == IF q.dist > 100 THEN c0 - ((q.dist - 100) \div 10) ELSE c0
        c2 == IF q.mag10 < 50 THEN c1 - (50 - q.mag10) ELSE c1
    IN  Max(c2, 0)

USGSConfirmed(q) == q.mag10 >= 40 /\ q.dist <= 500

RECURSIVE USGSLoop(_, _)
USGSLoop(validation, records) ==
    IF records = <<>> THEN validation
    ELSE LET q == Head(records)
             v1 == [validation EXCEPT
                      !.seismicData = Append(@, [source |-> "USGS", mag10 |-> q.mag10]),
                      !.validationSources =
                          Append(@, Vote("USGS", USGSConfirmed(q), USGSConfidence(q)))]
         IN  USGSLoop(v1, Tail(records))

validateWithUSGS(validation, resp) ==
    LET v1 == USGSLoop(validation, resp.records)
    IN  IF resp.fails
        THEN [v1 EXCEPT !.validationSources = Append(@, Vote("USGS", FALSE, 0))]
        ELSE v1

RECURSIVE PushVotes(_, _, _)
PushVotes(validation, vote, n) ==
    IF n = 0 THEN validation
    ELSE PushVotes([validation EXCEPT !.validationSources = Append(@, vote)],
                   vote, n - 1)

validateWithEMSC(validation, resp) ==
    IF resp.fails THEN validation
    ELSE PushVotes(validation, Vote("EMSC", TRUE, 85), resp.count)

validateEarthquake(validation, src) ==
    validateWithEMSC(validateWithUSGS(validation, src.usgs), src.emsc)

\* ------------------------------------------------------------------------
\* Validator: weather and generic branches
\* ------------------------------------------------------------------------
\* String.prototype.toLowerCase on the sample type strings
ToLower(t) == IF t = "Earthquake" THEN "earthquake" ELSE t

alertMap(disasterType) ==
    CASE disasterType = "tornado" ->
            {"Tornado Warning", "Tornado Watch", "Severe Thunderstorm Warning"}
      [] disasterType = "hurricane" ->
            {"Hurricane Warning", "Hurricane Watch", "Tropical Storm Warning"}
      [] disasterType = "flood" ->
            {"Flood Warning", "Flash Flood Warning", "Flood Watch"}
      [] disasterType = "storm" ->
            {"Severe Thunderstorm Warning", "Winter Storm Warning"}
      [] OTHER -> {}

\* alertType.includes(name): among the sample event strings and the alert
\* names of alertMap, one contains the other only when they are equal
StrIncludes(s, sub) == s = sub

checkAlertMatch(alertType, disasterType) ==
    \E name \in alertMap(ToLower(disasterType)) : StrIncludes(alertType, name)

\* the sample strings whose lower case contains 'warning' / 'extreme'
IncludesWarning(alertType) == alertType \in {"Severe Thunderstorm Warning"}
IncludesExtreme(severity) == severity \in {"Extreme"}

\* One alert of the loop of validateWithNOAA.  The alert is pushed to
\* officialAlerts before checkAlertMatch runs; checkAlertMatch throws a
\* TypeError on a missing disaster type (disasterType.toLowerCase()) and on
\* a missing event when the type has alert names to test it against
\* (alertType.includes), which ends the loop in the catch block.
RECURSIVE NOAALoop(_, _, _)
NOAALoop(validation, records, disasterType) ==
    IF records = <<>> THEN validation
    ELSE LET a == Head(records)
             v1 == [validation EXCEPT
                      !.officialAlerts =
                          Append(@, [source |-> "NOAA/NWS", alertType |-> a.event,
                                     severity |-> a.severity])]
         IN  IF \/ disasterType = NULL
                \/ (a.event = NULL /\ alertMap(ToLower(disasterType)) # {})
             THEN v1
             ELSE LET alertMatches == checkAlertMatch(a.event, disasterType)
                      v2 == [v1 EXCEPT !.validationSources =
                               Append(@, Vote("NOAA", alertMatches,
                                              IF alertMatches THEN 95 ELSE 20))]
                  IN  NOAALoop(v2, Tail(records), disasterType)

validateWithNOAA(validation, resp, disasterType) ==
    NOAALoop(validation, resp.records, disasterType)

checkSevereWeather(weatherData, disasterType) ==
    CASE ToLower(disasterType) \in {"storm", "tornado"} ->
            weatherData.main = "Thunderstorm" \/ weatherData.wind > 15
      [] ToLower(disasterType) = "hurricane" -> weatherData.wind > 33
      [] ToLower(disasterType) = "flood" ->
            weatherData.main = "Rain" /\ weatherData.rain1h > 10
      [] OTHER -> FALSE

validateWithOpenWeather(validation, resp, disasterType) ==
    IF resp.kind # "data" THEN validation
    ELSE LET v1 == [validation EXCEPT !.meteorologicalData =
                       Append(@, [source |-> "OpenWeather", conditions |-> resp.data])]
         IN  IF disasterType = NULL THEN v1  \* disasterType.toLowerCase() throws
             ELSE LET isSevere == checkSevereWeather(resp.data, disasterType)
                  IN  [v1 EXCEPT !.validationSources =
                         Append(@, Vote("OpenWeather", isSevere,
                                        IF isSevere THEN 80 ELSE 30))]

validateWithWeatherGov(validation, resp) ==
    IF resp.fails THEN validation
    ELSE PushVotes(validation, Vote("Weather.gov", TRUE, 85), resp.count)

validateWeatherDisaster(validation, src, disasterType) ==
    validateWithWeatherGov(
        validateWithOpenWeather(
            validateWithNOAA(validation, src.noaa, disasterType),
            src.openWeather, disasterType),
        src.weatherGov)

validateGenericDisaster(validation, src, disasterType) ==
    validateWithOpenWeather(
        validateWithNOAA(validation, src.noaa, disasterType),
        src.openWeather, disasterType)

\* ------------------------------------------------------------------------
\* Validator: wildfire branch
\* ------------------------------------------------------------------------
RECURSIVE FIRMSLoop(_, _)
FIRMSLoop(validation, records) ==
    IF records = <<>> THEN validation
    ELSE LET f == Head(records)
             v1 == IF f.dist <= 50 /\ f.confidence > 30
                   THEN [validation EXCEPT !.validationSources =
                           Append(@, Vote("NASA FIRMS", TRUE, Min(f.confidence, 90)))]
                   ELSE validation
         IN  FIRMSLoop(v1, Tail(records))

validateWithFIRMS(validation, resp) ==
    IF resp.fails THEN validation ELSE FIRMSLoop(validation, resp.records)

validateWildfire(validation, src) == validateWithFIRMS(validation, src.firms)

\* ------------------------------------------------------------------------
\* Validator: severity, recommendations, the run
\* ------------------------------------------------------------------------
\* officialAlerts.some(alert => alert.severity.toLowerCase().includes('extreme')
\*                          || alert.alertType.toLowerCase().includes('warning'))
\* "throw": alertType is undefined on an alert reached by the scan
RECURSIVE hasCriticalAlerts(_)
hasCriticalAlerts(officialAlerts) ==
    IF officialAlerts = <<>> THEN "false"
    ELSE LET a == Head(officialAlerts)
         IN  IF IncludesExtreme(a.severity) THEN "true"
             ELSE IF a.alertType = NULL THEN "throw"
             ELSE IF IncludesWarning(a.alertType) THEN "true"
             ELSE hasCriticalAlerts(Tail(officialAlerts))

hasHighMagnitude(seismicData) ==
    \E i \in 1..Len(seismicData) : seismicData[i].mag10 > 70

determineSeverity(validation) ==
    IF RLt(validation.confidence, 50) THEN "low"
    ELSE LET crit == hasCriticalAlerts(validation.officialAlerts)
         IN  IF crit = "throw" THEN "throw"
             ELSE IF crit = "true" \/ hasHighMagnitude(validation.seismicData)
                  THEN "critical"
             ELSE IF RGt(validation.confidence, 85) THEN "high"
             ELSE IF RGt(validation.confidence, 70) THEN "medium"
             ELSE "low"

generateRecommendations(validation, disasterType) ==
    IF validation.disasterConfirmed
    THEN <<"Monitor official emergency channels",
           "Follow local evacuation orders if issued">>
         \o (CASE ToLower(disasterType) = "earthquake" ->
                    <<"Prepare for aftershocks", "Check for structural damage">>
               [] ToLower(disasterType) = "hurricane" ->
                    <<"Secure outdoor items", "Stock emergency supplies">>
               [] ToLower(disasterType) = "tornado" ->
                    <<"Seek immediate shelter", "Avoid windows and upper floors">>
               [] ToLower(disasterType) = "flood" ->
                    <<"Move to higher ground", "Avoid driving through flooded roads">>
               [] OTHER -> <<>>)
    ELSE <<"Continue monitoring for updates",
           "Verify information through official sources">>

\* geocodeLocation answering a default position when nothing matches
geocodeLocationDefault(location, geoOk) ==
    IF location = NULL THEN NULL ELSE "coordinates"

\* geocodeLocation: null for a missing location, no match or a geocoder error
geocodeLocation(location, geoOk) ==
    IF location = NULL THEN NULL
    ELSE IF geoOk THEN "coordinates" ELSE NULL

\* the document client refuses to marshall an undefined attribute value
Marshallable(validation) ==
    \A i \in 1..Len(validation.officialAlerts) :
        validation.officialAlerts[i].alertType # NULL

\* the switch with the default case answering like the tsunami case
ValidateBranchPlaceholder(validation, src, disasterType) ==
    LET t == IF disasterType = NULL THEN NULL ELSE ToLower(disasterType)
    IN  CASE t = "earthquake" -> validateEarthquake(validation, src)
          [] t \in {"flood", "hurricane", "tornado", "storm"} ->
                validateWeatherDisaster(validation, src, disasterType)
          [] t = "wildfire" -> validateWildfire(validation, src)
          [] OTHER ->
                [validation EXCEPT
                   !.validationSources =
                       Append(@, Vote("tsunami-warning-centers", TRUE, 50)),
                   !.disasterConfirmed = TRUE,
                   !.confidence = RInt(50)]

\* the switch of validateWithOfficialSources (lines 160-187)
ValidateBranch(validation, src, disasterType) ==
    LET t == IF disasterType = NULL THEN NULL ELSE ToLower(disasterType)
    IN  CASE t = "earthquake" -> validateEarthquake(validation, src)
          [] t = "tsunami" ->
                [validation EXCEPT
                   !.validationSources =
                       Append(@, Vote("tsunami-warning-centers", TRUE, 50)),
                   !.disasterConfirmed = TRUE,
                   !.confidence = RInt(50)]
          [] t \in {"flood", "hurricane", "tornado", "storm"} ->
                validateWeatherDisaster(validation, src, disasterType)
          [] t = "wildfire" -> validateWildfire(validation, src)
          [] OTHER -> validateGenericDisaster(validation, src, disasterType)

\* The requests the switch issues to external sources, in order.  Every
\* validateWith... function catches what its own request and loop throw, so
\* the functions of a branch are all called; validateWithOpenWeather returns
\* before its request when no API key is configured.
QueriedSources(src, disasterType) ==
    LET t == IF disasterType = NULL THEN NULL ELSE ToLower(disasterType)
        openWeather == IF src.openWeather.kind = "nokey" THEN <<>>
                       ELSE <<"OpenWeather">>
    IN  CASE t = "earthquake" -> <<"USGS", "EMSC">>
          [] t = "tsunami" -> <<>>
          [] t \in {"flood", "hurricane", "tornado", "storm"} ->
                <<"NOAA">> \o openWeather \o <<"Weather.gov">>
          [] t = "wildfire" -> <<"NASA FIRMS">>
          [] OTHER -> <<"NOAA">> \o openWeather

\* line 203 without the confidence conjunct
alertGateConfirmedOnly(validation) == validation.disasterConfirmed

\* line 203 with a higher confidence bound
alertGateAbove90(validation) ==
    validation.disasterConfirmed /\ RGt(validation.confidence, 90)

\* line 203: disasterConfirmed && confidence > 80
alertGate(validation) ==
    validation.disasterConfirmed /\ RGt(validation.confidence, AlertThreshold)

\* the call with createValidatedAlert placed before updateEventWithValidation
validateWithOfficialSourcesAlertFirst(item, src) ==
    LET disasterType == item.disasterType
        location == IF item.aiLocation # NULL THEN item.aiLocation ELSE item.location
        coordinates == geocodeLocation(location, src.geoOk)
        v0 == NewValidation
    IN  IF coordinates = NULL
        THEN LET v1 == [v0 EXCEPT !.recommendations =
                          <<"Unable to validate - location not found">>]
             IN  [validation |-> v1, updated |-> src.updateOk, alerted |-> FALSE,
                  threw |-> ~src.updateOk, queried |-> <<>>]
        ELSE LET v1 == ValidateBranch(v0, src, disasterType)
                 queried == QueriedSources(src, disasterType)
                 v2 == Fuse(v1)
                 sev == determineSeverity(v2)
             IN  IF sev = "throw"
                 THEN [validation |-> v2, updated |-> FALSE, alerted |-> FALSE,
                       threw |-> TRUE, queried |-> queried]
                 ELSE LET v3 == [v2 EXCEPT !.severity = sev]
                          v4 == [v3 EXCEPT !.recommendations =
                                   generateRecommendations(v3, disasterType)]
                          put == alertGate(v4) /\ src.putOk
                          failed == alertGate(v4) /\ ~src.putOk
                          upd == ~failed /\ src.updateOk /\ Marshallable(v4)
                      IN  [validation |-> v4, updated |-> upd, alerted |-> put,
                           threw |-> ~upd, queried |-> queried]

\* What one call of validateWithOfficialSources does.  src holds what the
\* outside world answers during the call: the geocoder, the sources, and
\* whether the two table writes succeed.
\*   updated: updateEventWithValidation wrote the result
\*   alerted: createValidatedAlert put an alert
\*   threw:   the call ended by an exception (caught by the handler)
\*   queried: the requests issued to external sources
\* (the handler's record of a run also holds geocoded: the geocoder had a
\* match for a location the item names)
validateWithOfficialSources(item, src) ==
    LET disasterType == item.disasterType
        location == IF item.aiLocation # NULL THEN item.aiLocation ELSE item.location
        coordinates == geocodeLocation(location, src.geoOk)
        v0 == NewValidation
    IN  IF coordinates = NULL
        THEN LET v1 == [v0 EXCEPT !.recommendations =
                          <<"Unable to validate - location not found">>]
             IN  [validation |-> v1, updated |-> src.updateOk, alerted |-> FALSE,
                  threw |-> ~src.updateOk, queried |-> <<>>]
        ELSE LET v1 == ValidateBranch(v0, src, disasterType)
                 queried == QueriedSources(src, disasterType)
                 v2 == Fuse(v1)
                 sev == determineSeverity(v2)
             IN  IF sev = "throw"
                 THEN [validation |-> v2, updated |-> FALSE, alerted |-> FALSE,
                       threw |-> TRUE, queried |-> queried]
                 ELSE LET v3 == [v2 EXCEPT !.severity = sev]
                          v4 == [v3 EXCEPT !.recommendations =
                                   generateRecommendations(v3, disasterType)]
                      IN  IF ~(src.updateOk /\ Marshallable(v4))
                          THEN [validation |-> v4, updated |-> FALSE,
                                alerted |-> FALSE, threw |-> TRUE,
                                queried |-> queried]
                          ELSE IF alertGate(v4)
                          THEN [validation |-> v4, updated |-> TRUE,
                                alerted |-> src.putOk, threw |-> ~src.putOk,
                                queried |-> queried]
                          ELSE [validation |-> v4, updated |-> TRUE,
                                alerted |-> FALSE, threw |-> FALSE,
                                queried |-> queried]

\* updateEventWithValidation: the attributes SET on the event item
ValidationAttributes(validation) ==
    [weatherValidated |-> validation.isValidated,
     disasterConfirmed |-> validation.disasterConfirmed,
     validationConfidence |-> validation.confidence,
     validationSources |-> validation.validationSources,
     officialAlerts |-> validation.officialAlerts,
     meteorologicalData |-> validation.meteorologicalData,
     seismicData |-> validation.seismicData,
     validatedSeverity |-> validation.severity,
     affectedArea |-> NULL,
     validationRecommendations |-> validation.recommendations]

\* an alert item that also carries every attribute of the event it is about
AlertItemWithEventAttributes(eventId, originalItem, validation) ==
    [type |-> "validated_disaster_alert",
     originalEventId |-> eventId,
     severity |-> validation.severity,
     confidence |-> validation.confidence,
     status |-> "active"] @@ originalItem

\* createValidatedAlert: the alert item put into the events table
AlertItem(eventId, originalItem, validation) ==
    [type |-> "validated_disaster_alert",
     originalEventId |-> eventId,
     disasterType |-> originalItem.disasterType,
     severity |-> validation.severity,
     confidence |-> validation.confidence,
     location |-> IF originalItem.aiLocation # NULL THEN originalItem.aiLocation
                  ELSE originalItem.location,
     validationSources |->
         [i \in 1..Len(validation.validationSources) |->
             validation.validationSources[i].source],
     recommendations |-> validation.recommendations,
     status |-> "active",
     priority |-> IF validation.severity = "critical" THEN "immediate"
                  ELSE IF validation.severity = "high" THEN "high" ELSE "medium"]

\* ------------------------------------------------------------------------
\* Classifier: keyword pre-filter
\*
\* A text is abstracted to what the pre-filter can see of it:
\*   kws          the lexicon keywords it contains, case-insensitively
\*   magNumber    it contains a number pattern with 'magnitude' or 'richter'
\*   capLocation  it contains 'in/near/at Capitalized' or 'Capitalized County'
\* ------------------------------------------------------------------------
\* part of DISASTER_DETECTION_KEYWORDS, in the iteration order of the object
Lexicon ==
    <<[keyword |-> "earthquake", category |-> "seismic"],
      [keyword |-> "magnitude", category |-> "seismic"],
      [keyword |-> "flood", category |-> "water"],
      [keyword |-> "flooding", category |-> "water"],
      [keyword |-> "tornado", category |-> "weather"],
      [keyword |-> "alert", category |-> "alerts"]>>

Keywords == {Lexicon[i].keyword : i \in 1..Len(Lexicon)}

Texts ==
    {t \in [kws : SUBSET Keywords, magNumber : BOOLEAN, capLocation : BOOLEAN] :
        /\ "flooding" \in t.kws => "flood" \in t.kws
        /\ t.magNumber => "magnitude" \in t.kws}

getCategoryWeight(category) ==
    CASE category = "seismic" -> 8
      [] category = "water" -> 7
      [] category = "weather" -> 6
      [] category = "fire" -> 7
      [] category = "winter" -> 6
      [] category = "geological" -> 7
      [] category = "impact" -> 5
      [] category = "emergency" -> 4
      [] category = "alerts" -> 3
      [] OTHER -> 1

\* `${title} ${content}`.toLowerCase(): no capital letter is left
ToLowerCase(text) == [text EXCEPT !.capLocation = FALSE]

\* the patterns need a capital letter after in/near/at or before County/...
extractDetailedLocation(text) ==
    IF text.capLocation THEN "Location Phrase" ELSE NULL

\* entities.numbers.some(num => num.includes('magnitude') || ...('richter'))
hasMagnitudeNumber(text) == text.magNumber

RECURSIVE SumWeights(_)
SumWeights(matched) ==
    IF matched = <<>> THEN 0
    ELSE getCategoryWeight(Head(matched).category) + SumWeights(Tail(matched))

KeywordScore(text) ==
    LET fullText == ToLowerCase(text)
        IsMatch(e) == e.keyword \in fullText.kws
        matched == SelectSeq(Lexicon, IsMatch)
    IN  SumWeights(matched)
          + (IF hasMagnitudeNumber(fullText) THEN 10 ELSE 0)
          + (IF extractDetailedLocation(fullText) # NULL THEN 5 ELSE 0)

PotentialThreshold == 15

\* performKeywordAnalysis without the cap of line 334
performKeywordAnalysisNoCap(text) ==
    LET fullText == ToLowerCase(text)
        IsMatch(e) == e.keyword \in fullText.kws
        matched == SelectSeq(Lexicon, IsMatch)
        score == KeywordScore(text)
    IN  [potentialDisaster |-> score >= PotentialThreshold,
         confidence |-> score * 5,
         matchedKeywords |-> [i \in 1..Len(matched) |-> matched[i].keyword],
         disasterCategory |-> IF matched = <<>> THEN NULL ELSE matched[1].category,
         location |-> extractDetailedLocation(fullText)]

\* performKeywordAnalysis were the last matched category to win (line 319)
performKeywordAnalysisLastCategory(text) ==
    LET fullText == ToLowerCase(text)
        IsMatch(e) == e.keyword \in fullText.kws
        matched == SelectSeq(Lexicon, IsMatch)
        score == KeywordScore(text)
    IN  [potentialDisaster |-> score >= PotentialThreshold,
         confidence |-> Min(score * 5, 95),
         matchedKeywords |-> [i \in 1..Len(matched) |-> matched[i].keyword],
         disasterCategory |-> IF matched = <<>> THEN NULL
                              ELSE matched[Len(matched)].category,
         location |-> extractDetailedLocation(fullText)]

performKeywordAnalysis(text) ==
    LET fullText == ToLowerCase(text)
        IsMatch(e) == e.keyword \in fullText.kws
        matched == SelectSeq(Lexicon, IsMatch)
        score == KeywordScore(text)
    IN  [potentialDisaster |-> score >= PotentialThreshold,
         confidence |-> Min(score * 5, 95),
         matchedKeywords |-> [i \in 1..Len(matched) |-> matched[i].keyword],
         disasterCategory |-> IF matched = <<>> THEN NULL ELSE matched[1].category,
         location |-> extractDetailedLocation(fullText)]

\* ------------------------------------------------------------------------
\* Classifier: language model, parsing, fallback
\* ------------------------------------------------------------------------
mapCategoryToType(category) ==
    CASE category = "seismic" -> "earthquake"
      [] category = "water" -> "flood"
      [] category = "weather" -> "storm"
      [] category = "fire" -> "wildfire"
      [] category = "winter" -> "blizzard"
      [] category = "geological" -> "landslide"
      [] OTHER -> NULL

createFallbackAnalysis(preAnalysis) ==
    [isDisaster |-> preAnalysis.potentialDisaster,
     disasterType |-> mapCategoryToType(preAnalysis.disasterCategory),
     disasterCategory |-> preAnalysis.disasterCategory,
     severity |-> IF preAnalysis.confidence > 70 THEN "medium" ELSE "low",
     confidence |-> preAnalysis.confidence,
     location |-> preAnalysis.location,
     urgency |-> IF preAnalysis.confidence > 80 THEN "medium" ELSE "low",
     summary |-> "Potential disaster detected based on keyword analysis",
     keyIndicators |-> preAnalysis.matchedKeywords,
     recommendations |-> <<"Monitor for official updates",
                           "Verify through additional sources">>]

\* the JSON object of a model answer that parses: the fields the samples set
\* (a field left out, or a falsy one, takes the default of parseAIResponse)
ParsedSamples ==
    [isDisaster : BOOLEAN,
     disasterType : {"earthquake", "Earthquake", "tsunami", "flood", "tornado",
                     "wildfire", "volcano", NULL},
     confidence : {-5, 0, 65, 75, 150},
     location : {NULL, "San Francisco"}]

\* what the language model does when it is called
ModelOutcomes ==
    {[kind |-> k, parsed |-> NULL] : k \in {"throws", "noJson", "badJson"}}
      \cup {[kind |-> "json", parsed |-> p] : p \in ParsedSamples}

\* the result for a model answer holding a JSON object that fails to parse,
\* were the exception of JSON.parse not caught by the fallback
NonDisasterDefault(preAnalysis) ==
    [isDisaster |-> FALSE,
     disasterType |-> NULL,
     disasterCategory |-> preAnalysis.disasterCategory,
     severity |-> "low",
     confidence |-> 0,
     location |-> preAnalysis.location,
     urgency |-> "low",
     summary |-> "",
     keyIndicators |-> preAnalysis.matchedKeywords,
     recommendations |-> <<>>]

ParsedAnalysis(parsed, preAnalysis) ==
    [isDisaster |-> parsed.isDisaster,
     disasterType |-> parsed.disasterType,
     disasterCategory |-> preAnalysis.disasterCategory,
     severity |-> "low",
     confidence |-> Min(parsed.confidence, 100),
     location |-> IF parsed.location # NULL THEN parsed.location
                  ELSE preAnalysis.location,
     urgency |-> "low",
     summary |-> "",
     keyIndicators |-> preAnalysis.matchedKeywords,
     recommendations |-> <<>>]

parseAIResponseNoCatch(aiResponse, preAnalysis) ==
    IF aiResponse.kind = "json" THEN ParsedAnalysis(aiResponse.parsed, preAnalysis)
    ELSE IF aiResponse.kind = "badJson" THEN NonDisasterDefault(preAnalysis)
    ELSE createFallbackAnalysis(preAnalysis)

parseAIResponse(aiResponse, preAnalysis) ==
    IF aiResponse.kind = "json"
    THEN ParsedAnalysis(aiResponse.parsed, preAnalysis)   \* jsonMatch, parses
    ELSE IF aiResponse.kind = "badJson"
    THEN createFallbackAnalysis(preAnalysis)   \* JSON.parse throws, caught
    ELSE createFallbackAnalysis(preAnalysis)   \* no jsonMatch

performAIAnalysis(preAnalysis, outcome) ==
    IF outcome.kind = "throws"
    THEN createFallbackAnalysis(preAnalysis)   \* catch of invokeBedrockNova
    ELSE parseAIResponse(outcome, preAnalysis)

\* the short-circuit result of analyzePostWithAI (lines 270-285)
NonDisasterAnalysis(preAnalysis) ==
    [isDisaster |-> FALSE,
     disasterType |-> NULL,
     disasterCategory |-> NULL,
     severity |-> "low",
     confidence |-> preAnalysis.confidence,
     location |-> preAnalysis.location,
     urgency |-> "low",
     summary |-> "No disaster indicators detected",
     keyIndicators |-> preAnalysis.matchedKeywords,
     recommendations |-> <<>>]

\* the short-circuit result of analyzeTextWithAI (lines 188-197)
SimplifiedAnalysis(preAnalysis) ==
    [isDisaster |-> FALSE,
     disasterType |-> NULL,
     disasterCategory |-> NULL,
     severity |-> "low",
     confidence |-> preAnalysis.confidence,
     location |-> preAnalysis.location,
     summary |-> "No disaster indicators detected",
     keyIndicators |-> preAnalysis.matchedKeywords]

\* The classification of analyzePostWithAI (lines 259-286) and of
\* analyzeTextWithAI (lines 179-198): the analysis, and how many times the
\* language model was invoked for it.
ClassifyPostAlwaysModel(text, outcome) ==
    LET preAnalysis == performKeywordAnalysis(text)
    IN  [analysis |-> performAIAnalysis(preAnalysis, outcome), calls |-> 1]

ClassifyPost(text, outcome) ==
    LET preAnalysis == performKeywordAnalysis(text)
    IN  IF preAnalysis.potentialDisaster
        THEN [analysis |-> performAIAnalysis(preAnalysis, outcome), calls |-> 1]
        ELSE [analysis |-> NonDisasterAnalysis(preAnalysis), calls |-> 0]

\* analyzeTextWithAI without the short-circuit of lines 183-198
ClassifyTextAlwaysModel(text, outcome) ==
    LET preAnalysis == performKeywordAnalysis(text)
    IN  [analysis |-> performAIAnalysis(preAnalysis, outcome), calls |-> 1]

ClassifyText(text, outcome) ==
    LET preAnalysis == performKeywordAnalysis(text)
    IN  IF preAnalysis.potentialDisaster
        THEN [analysis |-> performAIAnalysis(preAnalysis, outcome), calls |-> 1]
        ELSE [analysis |-> SimplifiedAnalysis(preAnalysis), calls |-> 0]

\* updateEventWithAIAnalysis: the attributes SET on the event item
AnalysisAttributes(analysis) ==
    [aiAnalyzed |-> TRUE,
     isDisaster |-> analysis.isDisaster,
     disasterType |-> analysis.disasterType,
     aiSeverity |-> analysis.severity,
     aiConfidence |-> analysis.confidence,
     aiLocation |-> analysis.location,
     urgency |-> analysis.urgency,
     aiSummary |-> analysis.summary,
     keyIndicators |-> analysis.keyIndicators,
     recommendations |-> analysis.recommendations]

\* ------------------------------------------------------------------------
\* The events table and its change stream
\* ------------------------------------------------------------------------
PostIds == {"p1"}

\* the posts the ingestion side writes: text and extracted location
IngestPosts ==
    {[text |-> [kws |-> {"alert"}, magNumber |-> FALSE, capLocation |-> TRUE],
      location |-> NULL],
     [text |-> [kws |-> {"earthquake", "flood"}, magNumber |-> FALSE,
                capLocation |-> FALSE],
      location |-> NULL],
     [text |-> [kws |-> {"earthquake", "flood"}, magNumber |-> FALSE,
                capLocation |-> FALSE],
      location |-> "Houston, TX"]}

\* savePostToDynamoDB of the scraper: neither type nor relevanceScore
ScraperItems(id) ==
    {[id |-> id, text |-> p.text, location |-> p.location, processed |-> FALSE] :
        p \in IngestPosts}

\* a post put by an ingestion side that sets type and relevanceScore
TypedItems(id) ==
    {[id |-> id, type |-> "social_media_post", relevanceScore |-> 5,
      text |-> p.text, location |-> p.location] : p \in IngestPosts}
      \cup {[id |-> id, type |-> "social_media_post", relevanceScore |-> 0,
             text |-> p.text, location |-> p.location] :
                p \in {q \in IngestPosts : q.location # NULL}}

\* what the language model does when the stream handler calls it
StreamModelOutcomes ==
    {[kind |-> k, parsed |-> NULL] : k \in {"throws", "noJson", "badJson"}}
      \cup {[kind |-> "json",
             parsed |-> [isDisaster |-> FALSE, disasterType |-> NULL,
                         confidence |-> 90, location |-> NULL]]}
      \cup {[kind |-> "json",
             parsed |-> [isDisaster |-> TRUE, disasterType |-> t,
                         confidence |-> c, location |-> "San Francisco"]] :
                t \in {"Earthquake", "tsunami", "tornado", "wildfire", "volcano", NULL},
                c \in {50, 65, 90}}
      \cup {[kind |-> "json",
             parsed |-> [isDisaster |-> TRUE, disasterType |-> "earthquake",
                         confidence |-> 90, location |-> NULL]]}

HasTrue(image, f) == f \in DOMAIN image /\ image[f] = TRUE

StreamRecord(name, image) == [eventName |-> name, NewImage |-> image]

\* UpdateItem ... SET: the named attributes replace or extend the item
SetAttributes(item, attributes) == attributes @@ item

NoValidation ==
    [ran |-> FALSE, eventId |-> NULL, isDisaster |-> FALSE, aiConfidence |-> 0,
     validation |-> NewValidation, updated |-> FALSE, alerted |-> FALSE,
     putOk |-> FALSE, updateOk |-> FALSE, geocoded |-> FALSE, threw |-> FALSE,
     queried |-> <<>>, disasterType |-> NULL]

\* processedCount.errors and validationStats.errors of the two handlers,
\* the handlers whose invocation ended with an error, and the handlers that
\* went on to a further record after counting an error
NoErrors == [analyzer |-> 0, validator |-> 0, failed |-> {}, resumed |-> {}]

\* the catch of the per-record try: logs the record's id and counts the error
CatchRecordErrorRethrow(newItem) == FALSE

CatchRecordError(newItem) == "id" \in DOMAIN newItem

\* one pass of the handler's for loop over a record; threw tells whether
\* the call made for the record threw
LoopRecord(stats, name, newItem, threw) ==
    LET next == IF stats[name] > 0
                THEN [stats EXCEPT !.resumed = @ \cup {name}] ELSE stats
    IN  IF ~threw THEN next
        ELSE IF CatchRecordError(newItem) THEN [next EXCEPT ![name] = @ + 1]
        ELSE [next EXCEPT !.failed = @ \cup {name}]

InitStream ==
    /\ store = <<>>
    /\ alerts = <<>>
    /\ aStream = <<>>
    /\ vStream = <<>>
    /\ modelCalls = 0
    /\ ingests = 0
    /\ lastValidation = NoValidation
    /\ handlerStats = NoErrors

\* PutItem of a post: replaces the whole item
IngestPost(id, item) ==
    /\ ingests < MaxIngests
    /\ ingests' = ingests + 1
    /\ store' = (id :> item) @@ store
    /\ LET name == IF id \in DOMAIN store THEN "MODIFY" ELSE "INSERT"
           changed == id \notin DOMAIN store \/ store[id] # item
           recs == IF changed THEN <<StreamRecord(name, item)>> ELSE <<>>
       IN  /\ aStream' = aStream \o recs
           /\ vStream' = vStream \o recs
    /\ UNCHANGED <<alerts, modelCalls, lastValidation, handlerStats>>

ScraperSave == \E id \in PostIds : \E item \in ScraperItems(id) : IngestPost(id, item)

PostArrives == \E id \in PostIds : \E item \in TypedItems(id) : IngestPost(id, item)

\* ------------------------------------------------------------------------
\* Analyzer handler (ai-disaster-analyzer.ts handler), one stream record
\* ------------------------------------------------------------------------
AnalyzerGate(record) ==
    LET newItem == record.NewImage
    IN  /\ record.eventName = "INSERT"
        /\ "type" \in DOMAIN newItem
        /\ newItem.type = "social_media_post"
        /\ ~HasTrue(newItem, "aiAnalyzed")
        /\ "relevanceScore" \in DOMAIN newItem
        /\ newItem.relevanceScore > 0

AnalyzerSkip ==
    /\ aStream # <<>>
    /\ "analyzer" \notin handlerStats.failed
    /\ ~AnalyzerGate(Head(aStream))
    /\ aStream' = Tail(aStream)
    /\ handlerStats' = LoopRecord(handlerStats, "analyzer",
                                  Head(aStream).NewImage, FALSE)
    /\ UNCHANGED <<store, alerts, vStream, modelCalls, ingests, lastValidation>>

\* analyzePostWithAI: classify, then updateEventWithAIAnalysis; a failed
\* update throws and the handler's catch counts an error
AnalyzerProcess ==
    /\ aStream # <<>>
    /\ "analyzer" \notin handlerStats.failed
    /\ AnalyzerGate(Head(aStream))
    /\ \E outcome \in StreamModelOutcomes, updateOk \in BOOLEAN :
         LET newItem == Head(aStream).NewImage
             eventId == newItem.id
             c == ClassifyPost(newItem.text, outcome)
             item == SetAttributes(store[eventId], AnalysisAttributes(c.analysis))
             recs == IF updateOk /\ item # store[eventId]
                     THEN <<StreamRecord("MODIFY", item)>> ELSE <<>>
         IN  /\ modelCalls' = modelCalls + c.calls
             /\ store' = IF updateOk THEN [store EXCEPT ![eventId] = item] ELSE store
             /\ aStream' = Tail(aStream) \o recs
             /\ vStream' = vStream \o recs
             /\ handlerStats' = LoopRecord(handlerStats, "analyzer", newItem,
                                           ~updateOk)
    /\ UNCHANGED <<alerts, ingests, lastValidation>>

\* ------------------------------------------------------------------------
\* Validator handler (weather-disaster-validator.ts handler), one stream record
\* ------------------------------------------------------------------------
\* the handler's condition without the test of weatherValidated
ValidationGateIgnoringValidated(newItem) ==
    /\ HasTrue(newItem, "aiAnalyzed")
    /\ HasTrue(newItem, "isDisaster")
    /\ "aiConfidence" \in DOMAIN newItem
    /\ newItem.aiConfidence > 60

ValidationGate(newItem) ==
    /\ HasTrue(newItem, "aiAnalyzed")
    /\ HasTrue(newItem, "isDisaster")
    /\ ~HasTrue(newItem, "weatherValidated")
    /\ "aiConfidence" \in DOMAIN newItem
    /\ newItem.aiConfidence > 60

ValidatorGate(record) ==
    /\ record.eventName \in {"INSERT", "MODIFY"}
    /\ ValidationGate(record.NewImage)

\* what the outside world answers during one validation run; only the
\* sources the branch of the disaster type queries are varied
SourceInputs(disasterType) ==
    LET t == IF disasterType = NULL THEN NULL ELSE ToLower(disasterType)
        base == [geoOk : BOOLEAN, updateOk : BOOLEAN, putOk : BOOLEAN]
        With(b, u, e, n, o, w, f) ==
            [geoOk |-> b.geoOk, updateOk |-> b.updateOk, putOk |-> b.putOk,
             usgs |-> u, emsc |-> e, noaa |-> n, openWeather |-> o,
             weatherGov |-> w, firms |-> f]
    IN  CASE t = "earthquake" ->
               {With(b, u, e, NoRecords, NoWeather, NoCount, NoRecords) :
                   b \in base, u \in USGSResponses, e \in EMSCResponses}
          [] t = "tsunami" ->
               {With(b, NoRecords, NoCount, NoRecords, NoWeather, NoCount, NoRecords) :
                   b \in base}
          [] t \in {"flood", "hurricane", "tornado", "storm"} ->
               {With(b, NoRecords, NoCount, n, o, w, NoRecords) :
                   b \in base, n \in NOAAResponses, o \in OpenWeatherResponses,
                   w \in WeatherGovResponses}
          [] t = "wildfire" ->
               {With(b, NoRecords, NoCount, NoRecords, NoWeather, NoCount, f) :
                   b \in base, f \in FIRMSResponses}
          [] OTHER ->
               {With(b, NoRecords, NoCount, n, o, NoCount, NoRecords) :
                   b \in base, n \in NOAAResponses, o \in OpenWeatherResponses}

ValidatorSkip ==
    /\ vStream # <<>>
    /\ "validator" \notin handlerStats.failed
    /\ ~ValidatorGate(Head(vStream))
    /\ vStream' = Tail(vStream)
    /\ handlerStats' = LoopRecord(handlerStats, "validator",
                                  Head(vStream).NewImage, FALSE)
    /\ UNCHANGED <<store, alerts, aStream, modelCalls, ingests, lastValidation>>

ValidatorProcess ==
    /\ vStream # <<>>
    /\ "validator" \notin handlerStats.failed
    /\ ValidatorGate(Head(vStream))
    /\ LET newItem == Head(vStream).NewImage
           eventId == newItem.id
       IN  \E src \in SourceInputs(newItem.disasterType) :
             LET out == validateWithOfficialSources(newItem, src)
                 item == SetAttributes(store[eventId],
                                       ValidationAttributes(out.validation))
                 alert == AlertItem(eventId, newItem, out.validation)
                 recs == (IF out.updated /\ item # store[eventId]
                          THEN <<StreamRecord("MODIFY", item)>> ELSE <<>>)
                         \o (IF out.alerted
                             THEN <<StreamRecord("INSERT", alert)>> ELSE <<>>)
             IN  /\ store' = IF out.updated THEN [store EXCEPT ![eventId] = item]
                             ELSE store
                 /\ alerts' = IF out.alerted THEN Append(alerts, alert) ELSE alerts
                 /\ aStream' = aStream \o recs
                 /\ vStream' = Tail(vStream) \o recs
                 /\ lastValidation' =
                       [ran |-> TRUE, eventId |-> eventId,
                        isDisaster |-> newItem.isDisaster,
                        aiConfidence |-> newItem.aiConfidence,
                        validation |-> out.validation,
                        updated |-> out.updated, alerted |-> out.alerted,
                        putOk |-> src.putOk, updateOk |-> src.updateOk,
                        geocoded |->
                            /\ src.geoOk
                            /\ (newItem.aiLocation # NULL
                                  \/ newItem.location # NULL),
                        threw |-> out.threw, queried |-> out.queried,
                        disasterType |-> newItem.disasterType]
                 /\ handlerStats' = LoopRecord(handlerStats, "validator",
                                               newItem, out.threw)
    /\ UNCHANGED <<modelCalls, ingests>>

\* ------------------------------------------------------------------------
\* Fusion as a function of an arbitrary vote list
\* ------------------------------------------------------------------------
\* votes of any confidence, also outside 0..100
VoteSamples ==
    {Vote("source", ok, conf) : ok \in BOOLEAN, conf \in {-10, 0, 40, 60, 70, 90, 150}}

\* a branch may have assigned disasterConfirmed itself before fusion runs
FusionInputs ==
    {[NewValidation EXCEPT !.validationSources = votes, !.disasterConfirmed = dc] :
        votes \in SeqUpTo(VoteSamples, MaxVotes), dc \in BOOLEAN}

IdleFusion == fIn = NewValidation /\ fOut = NewValidation /\ fPc = "idle"

InitFusion == fIn \in FusionInputs /\ fOut = NewValidation /\ fPc = "input"

FuseStep ==
    /\ fPc = "input"
    /\ fOut' = Fuse(fIn)
    /\ fPc' = "fused"
    /\ UNCHANGED <<fIn, streamVars, classifyVars, pipelineVars, seismicVars>>

\* ------------------------------------------------------------------------
\* The classifier as a function of a text and of what the model does
\* ------------------------------------------------------------------------
NoResult == [isDisaster |-> FALSE, confidence |-> 0]

IdleClassify ==
    /\ cText = [kws |-> {}, magNumber |-> FALSE, capLocation |-> FALSE]
    /\ cOutcome = [kind |-> "throws", parsed |-> NULL]
    /\ cEntry = "none"
    /\ cResult = NoResult
    /\ cCalls = 0

InitClassify ==
    /\ cText \in Texts
    /\ cOutcome \in ModelOutcomes
    /\ cEntry = "none"
    /\ cResult = NoResult
    /\ cCalls = 0

\* the classification made by the stream handler for a post with this text
StreamClassify ==
    /\ cEntry = "none"
    /\ LET c == ClassifyPost(cText, cOutcome)
       IN  cResult' = c.analysis /\ cCalls' = c.calls
    /\ cEntry' = "stream"
    /\ UNCHANGED <<cText, cOutcome, streamVars, fusionVars, pipelineVars,
                   seismicVars>>

\* the classification made by httpHandler for a request with this text
HttpClassify ==
    /\ cEntry = "none"
    /\ LET c == ClassifyText(cText, cOutcome)
       IN  cResult' = c.analysis /\ cCalls' = c.calls
    /\ cEntry' = "http"
    /\ UNCHANGED <<cText, cOutcome, streamVars, fusionVars, pipelineVars,
                   seismicVars>>

\* ------------------------------------------------------------------------
\* Data pipeline processor (data-pipeline-processor.ts), one run
\* Confidence is in hundredths (60 is the code's 0.6).
\* ------------------------------------------------------------------------
\* what analyzePostWithAI returns for a post (the model's JSON or the
\* fallback of generateFallbackAnalysis); confidence in hundredths: the
\* JSON's confidence is taken as it is, also above 1.0
PostAnalysisSamples ==
    [disasterType : {"flood", "earthquake", "unknown"},
     severity : {"medium", "critical"},
     confidence : {40, 60, 95, 150}]

\* what getWeatherData returns, and the draw of Math.random() > 0.3;
\* conditions = NULL is an answer without weather[0].description
WeatherInputs ==
    [conditions : {"rainy", "clear", NULL},
     humidity : {50, 85},
     rand : BOOLEAN]

\* "throw": weather.conditions.includes on undefined conditions
validateEventWithWeather(event, weather) ==
    CASE event.type = "flood" ->
            IF weather.humidity > 80 THEN "true"
            ELSE IF weather.conditions = NULL THEN "throw"
            ELSE IF weather.conditions = "rainy" THEN "true" ELSE "false"
      [] event.type = "earthquake" -> "true"
      [] OTHER -> IF weather.rand THEN "true" ELSE "false"

\* performAIAnalysis of the pipeline: one event per post above the gate
RECURSIVE pipelineAnalyse(_, _)
pipelineAnalyse(analyses, n) ==
    IF analyses = <<>> THEN <<>>
    ELSE LET a == Head(analyses)
             rest == pipelineAnalyse(Tail(analyses), n + 1)
         IN  IF a.confidence > 50
             THEN <<[id |-> n, type |-> a.disasterType, severity |-> a.severity,
                     confidence |-> a.confidence, validated |-> FALSE,
                     weatherData |-> NULL]>> \o rest
             ELSE rest

\* one event of validateWithWeatherData
validateOne(event, weather) ==
    LET isValidated == validateEventWithWeather(event, weather)
    IN  IF isValidated = "throw" THEN event
        ELSE [event EXCEPT
                !.validated = (isValidated = "true"),
                !.weatherData = weather.conditions,
                !.confidence = IF isValidated = "true"
                               THEN Min(event.confidence + 10, 100)
                               ELSE Max(event.confidence - 20, 30)]

needsAlert(event) == event.severity = "critical" \/ event.severity = "high"

pipelineAlert(event) ==
    [eventId |-> event.id,
     type |-> IF event.severity = "critical" THEN "EMERGENCY" ELSE "WARNING",
     severity |-> event.severity,
     confidence |-> event.confidence]

\* storeToDynamoDB: the alerts put for the events, given which puts succeed
RECURSIVE storedAlerts(_, _)
storedAlerts(events, oks) ==
    IF events = <<>> THEN <<>>
    ELSE LET e == Head(events)
             ok == Head(oks)
             rest == storedAlerts(Tail(events), Tail(oks))
         IN  IF ok.event /\ needsAlert(e) /\ ok.alert
             THEN <<pipelineAlert(e)>> \o rest
             ELSE rest

RECURSIVE storedEvents(_, _)
storedEvents(events, oks) ==
    IF events = <<>> THEN <<>>
    ELSE LET rest == storedEvents(Tail(events), Tail(oks))
         IN  IF Head(oks).event THEN <<Head(events)>> \o rest ELSE rest

IdlePipeline ==
    pEvents = <<>> /\ pPc = "idle" /\ pEventsTable = <<>> /\ pAlertsTable = <<>>

InitPipeline ==
    pEvents = <<>> /\ pPc = "scraped" /\ pEventsTable = <<>> /\ pAlertsTable = <<>>

PipelineAnalyse ==
    /\ pPc = "scraped"
    /\ \E analyses \in SeqUpTo(PostAnalysisSamples, MaxPosts) :
          pEvents' = pipelineAnalyse(analyses, 1)
    /\ pPc' = "analysed"
    /\ UNCHANGED <<pEventsTable, pAlertsTable, streamVars, fusionVars,
                   classifyVars, seismicVars>>

PipelineValidate ==
    /\ pPc = "analysed"
    /\ \E ws \in [1..Len(pEvents) -> WeatherInputs] :
          pEvents' = [i \in 1..Len(pEvents) |-> validateOne(pEvents[i], ws[i])]
    /\ pPc' = "validated"
    /\ UNCHANGED <<pEventsTable, pAlertsTable, streamVars, fusionVars,
                   classifyVars, seismicVars>>

PipelineStore ==
    /\ pPc = "validated"
    /\ \E oks \in [1..Len(pEvents) -> [event : BOOLEAN, alert : BOOLEAN]] :
          /\ pEventsTable' = pEventsTable \o storedEvents(pEvents, oks)
          /\ pAlertsTable' = pAlertsTable \o storedAlerts(pEvents, oks)
    /\ pPc' = "stored"
    /\ UNCHANGED <<pEvents, streamVars, fusionVars, classifyVars, seismicVars>>

\* ------------------------------------------------------------------------
\* The earthquake branch as a function of what the two catalogues answer
\* ------------------------------------------------------------------------
\* EMSC features: the request has maxradius 5 degrees and no minimum
\* magnitude, so features below magnitude 4.0 or beyond 500 km come back
EMSCSamples ==
    {[mag10 |-> 60, dist |-> 50],
     [mag10 |-> 30, dist |-> 100],
     [mag10 |-> 52, dist |-> 540]}

EMSCFeatures ==
    {r \in [records : SeqUpTo(EMSCSamples, MaxRecords), fails : BOOLEAN] :
        r.fails => r.records = <<>>}

\* emscData.features is only iterated: the loop never reads a feature
EMSCCount(resp) == [count |-> Len(resp.records), fails |-> resp.fails]

IdleSeismic ==
    /\ qUsgs = NoRecords
    /\ qEmsc = NoRecords
    /\ qOut = NewValidation
    /\ qPc = "idle"

InitSeismic ==
    /\ qUsgs \in USGSResponses
    /\ qEmsc \in EMSCFeatures
    /\ qOut = NewValidation
    /\ qPc = "input"

\* validateEarthquake: await validateWithUSGS, then await validateWithEMSC
SeismicUSGS ==
    /\ qPc = "input"
    /\ qOut' = validateWithUSGS(qOut, qUsgs)
    /\ qPc' = "usgs"
    /\ UNCHANGED <<qUsgs, qEmsc, streamVars, fusionVars, classifyVars,
                   pipelineVars>>

SeismicEMSC ==
    /\ qPc = "usgs"
    /\ qOut' = validateWithEMSC(qOut, EMSCCount(qEmsc))
    /\ qPc' = "emsc"
    /\ UNCHANGED <<qUsgs, qEmsc, streamVars, fusionVars, classifyVars,
                   pipelineVars>>

\* ------------------------------------------------------------------------
\* Specifications
\* ------------------------------------------------------------------------
Init == InitStream /\ IdleFusion /\ IdleClassify /\ IdlePipeline
    /\ IdleSeismic

Next ==
    \/ (ScraperSave /\ UNCHANGED <<fusionVars, classifyVars, pipelineVars,
                                   seismicVars>>)
    \/ (PostArrives /\ UNCHANGED <<fusionVars, classifyVars, pipelineVars,
                                   seismicVars>>)
    \/ (AnalyzerSkip /\ UNCHANGED <<fusionVars, classifyVars, pipelineVars,
                                   seismicVars>>)
    \/ (AnalyzerProcess /\ UNCHANGED <<fusionVars, classifyVars, pipelineVars,
                                   seismicVars>>)
    \/ (ValidatorSkip /\ UNCHANGED <<fusionVars, classifyVars, pipelineVars,
                                   seismicVars>>)
    \/ (ValidatorProcess /\ UNCHANGED <<fusionVars, classifyVars, pipelineVars,
                                   seismicVars>>)

Spec == Init /\ [][Next]_vars

\* The stream-triggered pipeline once a post with type and relevance score
\* is in the table, its INSERT record not yet seen by the two handlers;
\* ingests counts the PutItem calls made from then on.
InitResave ==
    \E id \in PostIds :
      \E item \in {i \in TypedItems(id) : i.relevanceScore > 0} :
        /\ store = (id :> item)
        /\ alerts = <<>>
        /\ aStream = <<StreamRecord("INSERT", item)>>
        /\ vStream = <<StreamRecord("INSERT", item)>>
        /\ modelCalls = 0
        /\ ingests = 0
        /\ lastValidation = NoValidation
        /\ handlerStats = NoErrors

ResaveInit == InitResave /\ IdleFusion /\ IdleClassify /\ IdlePipeline
    /\ IdleSeismic
SpecResave == ResaveInit /\ [][Next]_vars

FusionInit == InitFusion /\ InitStream /\ IdleClassify /\ IdlePipeline
    /\ IdleSeismic
FusionNext == FuseStep
SpecFusion == FusionInit /\ [][FusionNext]_vars

ClassifyInit == InitClassify /\ InitStream /\ IdleFusion /\ IdlePipeline
    /\ IdleSeismic
ClassifyNext == StreamClassify \/ HttpClassify
SpecClassify == ClassifyInit /\ [][ClassifyNext]_vars

PipelineInit == InitPipeline /\ InitStream /\ IdleFusion /\ IdleClassify
    /\ IdleSeismic
PipelineNext == PipelineAnalyse \/ PipelineValidate \/ PipelineStore
SpecPipeline == PipelineInit /\ [][PipelineNext]_vars

SeismicInit == InitSeismic /\ InitStream /\ IdleFusion /\ IdleClassify
    /\ IdlePipeline
SeismicNext == SeismicUSGS \/ SeismicEMSC
SpecSeismic == SeismicInit /\ [][SeismicNext]_vars

\* ------------------------------------------------------------------------
\* Properties
\* ------------------------------------------------------------------------
ConfirmedVotes(votes) == SelectSeq(votes, IsConfirmed)

ValidatedItems == {id \in DOMAIN store : HasTrue(store[id], "weatherValidated")}

\* C1: an alert is created for an event only if the validation result of
\* that run has disasterConfirmed = true and a fused confidence above the
\* alert gate of line 203; every alert item carries such a confidence.
C1_AlertOnlyIfConfirmedAboveGate ==
    /\ lastValidation.alerted =>
          /\ lastValidation.validation.disasterConfirmed
          /\ RGt(lastValidation.validation.confidence, AlertThreshold)
    /\ \A i \in 1..Len(alerts) : RGt(alerts[i].confidence, AlertThreshold)

C1_Witness ==
    /\ lastValidation.alerted
    /\ Len(alerts) = 1
    /\ alerts[1].originalEventId = lastValidation.eventId

\* C2 as stated: every validation that yields disasterConfirmed = true (the
\* result persisted, the alert put succeeding) creates an alert, the alert
\* threshold being the confirmation threshold.
C2_ConfirmedIsAlerted ==
    (/\ lastValidation.ran
     /\ lastValidation.updated
     /\ lastValidation.putOk
     /\ lastValidation.validation.disasterConfirmed)
        => lastValidation.alerted

\* C2 amended: the alert threshold is 80, above the confirmation threshold 70.
\* A persisted validation with disasterConfirmed = true and fused confidence
\* above 80 creates an alert when the alert put succeeds; a validation with
\* fused confidence at or below 80 creates none, confirmed or not.
C2_ConfirmedAbove80IsAlerted ==
    /\ (/\ lastValidation.ran
        /\ lastValidation.updated
        /\ lastValidation.putOk
        /\ lastValidation.validation.disasterConfirmed
        /\ RGt(lastValidation.validation.confidence, 80))
          => lastValidation.alerted
    /\ (lastValidation.ran /\ RLe(lastValidation.validation.confidence, 80))
          => ~lastValidation.alerted

C2_Witness ==
    /\ lastValidation.ran
    /\ lastValidation.updated
    /\ lastValidation.validation.disasterConfirmed
    /\ RLe(lastValidation.validation.confidence, 80)
    /\ lastValidation.putOk
    /\ ~lastValidation.alerted
    /\ alerts = <<>>

\* C4: on every validated event item, whatever branch produced the votes, the
\* persisted disasterConfirmed is (fused confidence of the persisted votes
\* > 70), and the persisted confidence is that fused confidence.
C4_ConfirmedIffFusedAbove70 ==
    \A id \in ValidatedItems :
        LET fused == calculateOverallConfidence(
                         [validationSources |-> store[id].validationSources])
        IN  /\ store[id].validationConfidence = fused
            /\ store[id].disasterConfirmed = RGt(fused, 70)

\* the tsunami branch assigned disasterConfirmed = true and confidence = 50
C4_Witness ==
    \E id \in ValidatedItems :
        /\ Len(store[id].validationSources) = 1
        /\ store[id].validationSources[1].source = "tsunami-warning-centers"
        /\ store[id].disasterConfirmed = FALSE
        /\ store[id].validationConfidence = RInt(50)

\* C5: the validator runs only on an event classified as a disaster with a
\* classification confidence above the classifier's trigger gate of 70.
C5_ValidatedOnlyAbove70 ==
    lastValidation.ran =>
        (lastValidation.isDisaster /\ lastValidation.aiConfidence > 70)

\* C3: after a run of the data pipeline, every alert in the alerts table
\* belongs to an event whose weather validation passed.
C3_AlertOnlyForValidated ==
    pPc = "stored" =>
        \A i \in 1..Len(pAlertsTable) :
            \E j \in 1..Len(pEvents) :
                /\ pEvents[j].id = pAlertsTable[i].eventId
                /\ pEvents[j].validated

\* C6: a text whose pre-filter score is below 15 is classified as a
\* non-disaster with the pre-filter's confidence and without any call of
\* the language model, by the stream handler and by the HTTP handler.
C6_NoModelCallBelowThreshold ==
    (cEntry # "none" /\ KeywordScore(cText) < 15) =>
        /\ cCalls = 0
        /\ cResult.isDisaster = FALSE
        /\ cResult.confidence = performKeywordAnalysis(cText).confidence

C6_Witness ==
    /\ cEntry = "http"
    /\ KeywordScore(cText) = 14
    /\ cOutcome.kind = "json"
    /\ cOutcome.parsed.isDisaster
    /\ cCalls = 0
    /\ cResult.confidence = 70

\* C7: when the model call throws, when the answer holds no JSON object and
\* when the answer holds a JSON fragment that fails to parse, the result is
\* the fallback classification of the same KeywordSignal.
C7_FallbackWhateverTheCause ==
    (/\ cEntry # "none"
     /\ KeywordScore(cText) >= 15
     /\ cOutcome.kind \in {"throws", "noJson", "badJson"})
        => /\ cResult = createFallbackAnalysis(performKeywordAnalysis(cText))
           /\ cCalls = 1

C7_Witness ==
    /\ cEntry = "stream"
    /\ cOutcome.kind = "badJson"
    /\ cResult.isDisaster
    /\ cResult.disasterType = "flood"
    /\ cResult.confidence = 95

\* C8: a vote list without a confirmed vote fuses to confidence 0 and
\* disasterConfirmed = false.
C8_NoConfirmedVoteGivesZero ==
    (fPc = "fused" /\ ConfirmedVotes(fIn.validationSources) = <<>>) =>
        /\ fOut.confidence = RInt(0)
        /\ fOut.disasterConfirmed = FALSE

\* unconfirmed votes of high confidence, and a branch that had confirmed
C8_Witness ==
    /\ fPc = "fused"
    /\ Len(fIn.validationSources) = 2
    /\ \A i \in 1..2 : /\ ~fIn.validationSources[i].confirmed
                       /\ fIn.validationSources[i].confidence = 90
    /\ fIn.disasterConfirmed
    /\ ~fOut.disasterConfirmed

\* C9: on a validated event with two or more confirmed votes the fused
\* confidence is at least the confidence of every confirmed vote.
C9_MonotonicBoost ==
    \A id \in ValidatedItems :
        LET confirmed == ConfirmedVotes(store[id].validationSources)
        IN  Len(confirmed) >= 2 =>
                \A i \in 1..Len(confirmed) :
                    RGe(store[id].validationConfidence, confirmed[i].confidence)

\* C10: the fused confidence lies in [0,100] for every vote list.
C10_FusedWithin0And100 ==
    fPc = "fused" => (RGe(fOut.confidence, 0) /\ RLe(fOut.confidence, 100))

\* C11: the confidence of every classification the classifier returns lies
\* in [0,100], whatever confidence the model's JSON holds.
C11_ClassificationConfidenceWithin0And100 ==
    cEntry # "none" => (cResult.confidence >= 0 /\ cResult.confidence <= 100)

\* C18: for every text the pre-filter's score is non-negative, its confidence
\* is min(score x 5, 95) and so in [0,95], warrants-classification is
\* (score >= 15), and a text without a keyword match scores 0 and does not
\* warrant classification; the short-circuit and the fallback results carry
\* that confidence.
C18_PreFilterBounds ==
    LET pre == performKeywordAnalysis(cText)
        score == KeywordScore(cText)
    IN  /\ score >= 0
        /\ pre.confidence >= 0 /\ pre.confidence <= 95
        /\ (score * 5 <= 95 => pre.confidence = score * 5)
        /\ (score * 5 > 95 => pre.confidence = 95)
        /\ pre.potentialDisaster = (score >= 15)
        /\ (pre.matchedKeywords = <<>> => (score = 0 /\ ~pre.potentialDisaster))
        /\ ((cEntry # "none" /\ (cCalls = 0 \/ cOutcome.kind # "json"))
               => (cResult.confidence >= 0 /\ cResult.confidence <= 95))

\* a text scoring 26 (x 5 = 130), classified by the fallback at the cap
C18_Witness ==
    /\ cEntry = "stream"
    /\ cOutcome.kind = "throws"
    /\ KeywordScore(cText) = 26
    /\ cResult.confidence = 95
    /\ cResult.isDisaster

\* the outcome of a validation run whose geocoding gave no coordinates
GeocodeFailureOutcome ==
    LET v == lastValidation.validation
        id == lastValidation.eventId
    IN  /\ lastValidation.queried = <<>>
        /\ v.validationSources = <<>>
        /\ v.officialAlerts = <<>> /\ v.meteorologicalData = <<>>
        /\ v.seismicData = <<>>
        /\ v.recommendations = <<"Unable to validate - location not found">>
        /\ v.confidence = RInt(0)
        /\ v.disasterConfirmed = FALSE
        /\ lastValidation.alerted = FALSE
        /\ \A i \in 1..Len(alerts) : alerts[i].originalEventId # id
        /\ lastValidation.updateOk =>
              /\ lastValidation.threw = FALSE
              /\ lastValidation.updated
              /\ HasTrue(store[id], "weatherValidated")
              /\ store[id].validationConfidence = RInt(0)
              /\ store[id].disasterConfirmed = FALSE
              /\ store[id].validationSources = <<>>
              /\ store[id].validationRecommendations =
                    <<"Unable to validate - location not found">>

C13_SourceFailureNeverAborts ==
    (lastValidation.ran /\ lastValidation.geocoded) =>
        /\ lastValidation.validation.confidence =
              calculateOverallConfidence(lastValidation.validation)
        /\ lastValidation.updateOk =>
              /\ lastValidation.updated
              /\ (lastValidation.threw => alertGate(lastValidation.validation))

\* the lifecycle state of an event: 0 ingested, 1 classified, 2 validated,
\* 3 alerted
HasAlert(al, id) == \E i \in 1..Len(al) : al[i].originalEventId = id

AlertCount(al, id) == Cardinality({i \in 1..Len(al) : al[i].originalEventId = id})

Lifecycle(st, al, id) ==
    IF HasAlert(al, id) /\ HasTrue(st[id], "weatherValidated") THEN 3
    ELSE IF HasTrue(st[id], "weatherValidated") THEN 2
    ELSE IF HasTrue(st[id], "aiAnalyzed") THEN 1
    ELSE 0

\* C14: the lifecycle of an event only moves forward along ingested ->
\* classified -> validated -> alerted: a validated event is classified, an
\* alert belongs to a validated event, no step lowers the state of an event,
\* and an alerted event's record and alerts never change again.
C14_LifecycleOnlyForward ==
    [][\A id \in DOMAIN store :
          /\ id \in DOMAIN store'
          /\ Lifecycle(store', alerts', id) >= Lifecycle(store, alerts, id)
          /\ HasTrue(store'[id], "weatherValidated")
                => HasTrue(store'[id], "aiAnalyzed")
          /\ HasAlert(alerts', id) => HasTrue(store'[id], "weatherValidated")
          /\ Lifecycle(store, alerts, id) = 3 =>
                /\ store'[id] = store[id]
                /\ AlertCount(alerts', id) = AlertCount(alerts, id)]_vars

\* C15: classification has no terminal failure state: once the analyzer
\* handler has seen every change record, every post in the events table
\* carries aiAnalyzed = true with a classification.
C15_EveryPostGetsClassified ==
    aStream = <<>> =>
        \A id \in DOMAIN store :
            /\ HasTrue(store[id], "aiAnalyzed")
            /\ "isDisaster" \in DOMAIN store[id]
            /\ "aiConfidence" \in DOMAIN store[id]

\* the classification attributes updateEventWithAIAnalysis sets on a record
ClassificationFields ==
    {"aiAnalyzed", "isDisaster", "disasterType", "aiSeverity", "aiConfidence",
     "aiLocation", "urgency", "aiSummary", "keyIndicators", "recommendations"}

ClassificationOf(item) ==
    [f \in DOMAIN item \cap ClassificationFields |-> item[f]]

\* C16: once an event record carries a classification, no later operation
\* overwrites or removes its classification attributes.
C16_ClassificationNeverChanges ==
    [][\A id \in DOMAIN store :
          HasTrue(store[id], "aiAnalyzed") =>
              /\ id \in DOMAIN store'
              /\ ClassificationOf(store'[id]) = ClassificationOf(store[id])]_vars

\* C17: an error on one record of a batch is caught per record by the
\* analyzer handler and by the validator handler: the error is counted, the
\* handler goes on with the records that remain, and no invocation fails.
C17_RecordFailureIsContained ==
    /\ handlerStats.failed = {}
    /\ (lastValidation.ran /\ lastValidation.threw) => handlerStats.validator > 0
    /\ (handlerStats.analyzer > 0 /\ aStream # <<>>)
          => ENABLED (AnalyzerSkip \/ AnalyzerProcess)
    /\ (handlerStats.validator > 0 /\ vStream # <<>>)
          => ENABLED (ValidatorSkip \/ ValidatorProcess)

\* the validator's table update failed on one record, the handler counted
\* the error and then handled the change record of a later save
C17_Witness ==
    /\ handlerStats.validator > 0
    /\ "validator" \in handlerStats.resumed
    /\ lastValidation.threw
    /\ ~lastValidation.updated
    /\ ingests = 1
    /\ vStream = <<>>

\* the severity the stated priority order gives a fused result
SeverityByPriority(validation) ==
    IF RLt(validation.confidence, 50) THEN "low"
    ELSE IF \/ \E i \in 1..Len(validation.officialAlerts) :
                 LET a == validation.officialAlerts[i]
                 IN  \/ IncludesExtreme(a.severity)
                     \/ a.alertType # NULL /\ IncludesWarning(a.alertType)
            \/ \E i \in 1..Len(validation.seismicData) :
                 validation.seismicData[i].mag10 > 70
         THEN "critical"
    ELSE IF RGt(validation.confidence, 85) THEN "high"
    ELSE IF RGt(validation.confidence, 70) THEN "medium"
    ELSE "low"

\* C19: every validation run that fused its votes derives the severity of
\* the result in the priority order low below 50, critical on an extreme
\* alert, a warning or a magnitude above 7.0, high above 85, medium above
\* 70, low otherwise, and attaches it to the result.
C19_SeverityInPriorityOrder ==
    (lastValidation.ran /\ lastValidation.geocoded) =>
        /\ determineSeverity(lastValidation.validation)
              = SeverityByPriority(lastValidation.validation)
        /\ lastValidation.validation.severity
              = SeverityByPriority(lastValidation.validation)

\* the disaster types the switch gives a branch that queries their own sources
DedicatedTypes ==
    {"earthquake", "flood", "hurricane", "tornado", "storm", "wildfire"}

LastType ==
    IF lastValidation.disasterType = NULL THEN NULL
    ELSE ToLower(lastValidation.disasterType)

\* C20 as stated: a validation run for tsunami or for a type without a
\* dedicated integration holds exactly one vote, a placeholder with
\* confidence 50 and confirmed = true, and queries no external source.
C20_PlaceholderForTsunamiAndOthers ==
    (lastValidation.ran /\ lastValidation.geocoded
        /\ LastType \notin DedicatedTypes) =>
        LET votes == lastValidation.validation.validationSources
        IN  /\ Len(votes) = 1
            /\ votes[1].confidence = 50
            /\ votes[1].confirmed
            /\ lastValidation.queried = <<>>

\* C20 amended: a validation run for tsunami holds exactly one vote, the
\* placeholder with confidence 50 and confirmed = true, queries no external
\* source and fuses to 50; a run for any other type without a dedicated
\* integration queries the official alert feed and, an API key being
\* configured, the weather service, holds no placeholder and no confirmed
\* vote, and fuses to 0 with disasterConfirmed = false.
C20_PlaceholderForTsunamiOnly ==
    (lastValidation.ran /\ lastValidation.geocoded) =>
        LET v == lastValidation.validation
            votes == v.validationSources
        IN  /\ LastType = "tsunami" =>
                  /\ votes = <<Vote("tsunami-warning-centers", TRUE, 50)>>
                  /\ lastValidation.queried = <<>>
                  /\ v.confidence = RInt(50)
                  /\ ~v.disasterConfirmed
            /\ LastType \notin DedicatedTypes \cup {"tsunami"} =>
                  /\ lastValidation.queried
                        \in {<<"NOAA">>, <<"NOAA", "OpenWeather">>}
                  /\ \A i \in 1..Len(votes) :
                        /\ votes[i].source # "tsunami-warning-centers"
                        /\ ~votes[i].confirmed
                  /\ v.confidence = RInt(0)
                  /\ ~v.disasterConfirmed

\* a volcano event validated through the alert feed and the weather service
C20_Witness ==
    /\ lastValidation.ran
    /\ lastValidation.geocoded
    /\ lastValidation.disasterType = "volcano"
    /\ lastValidation.queried = <<"NOAA", "OpenWeather">>
    /\ Len(lastValidation.validation.validationSources) = 2
    /\ lastValidation.updated
    /\ store[lastValidation.eventId].validationConfidence = RInt(0)

\* C21: once both catalogues of the earthquake branch were asked, the vote
\* of every catalogue record, USGS or EMSC, is confirmed iff the record's
\* magnitude is at least 4.0 and its distance at most 500 km, and there is
\* one seismic reading for every record that gave a vote.
C21_SeismicVotesConfirmedIffNear ==
    qPc = "emsc" =>
        LET votes == qOut.validationSources
            nU == Len(qUsgs.records)
            eU == IF qUsgs.fails THEN 1 ELSE 0
            nE == Len(qEmsc.records)
        IN  /\ Len(votes) = nU + eU + nE
            /\ \A i \in 1..nU :
                  votes[i].confirmed <=>
                     (qUsgs.records[i].mag10 >= 40 /\ qUsgs.records[i].dist <= 500)
            /\ \A j \in 1..nE :
                  votes[nU + eU + j].confirmed <=>
                     (qEmsc.records[j].mag10 >= 40 /\ qEmsc.records[j].dist <= 500)
            /\ Len(qOut.seismicData) = nU + nE

\* C22: one confirmed vote fuses to its own confidence; n > 1 confirmed
\* votes fuse to min(mean + (n - 1) x 10, 95); confirmed votes at 60 and 70
\* fuse to 75 with disasterConfirmed = true.
C22_FusionFormula ==
    fPc = "fused" =>
        LET confirmed == ConfirmedVotes(fIn.validationSources)
            n == Len(confirmed)
            boosted == SumConfidence(confirmed) + (n - 1) * 10 * n
        IN  /\ n = 1 => fOut.confidence = RInt(confirmed[1].confidence)
            /\ n > 1 =>
                  fOut.confidence = IF boosted <= 95 * n THEN Rat(boosted, n)
                                    ELSE RInt(95)
            /\ (n = 2 /\ confirmed[1].confidence = 60
                       /\ confirmed[2].confidence = 70) =>
                  /\ fOut.confidence = RInt(75)
                  /\ fOut.disasterConfirmed

\* two confirmed votes at 60 and 70 next to an unconfirmed one
C22_Witness ==
    /\ fPc = "fused"
    /\ fIn.validationSources =
          <<Vote("source", TRUE, 60), Vote("source", FALSE, 90),
            Vote("source", TRUE, 70)>>
    /\ fOut.confidence = RInt(75)
    /\ fOut.disasterConfirmed

\* the weight the matched keywords of a category add to the score
CategoryScore(text, category) ==
    LET Hit(e) == e.keyword \in text.kws /\ e.category = category
    IN  SumWeights(SelectSeq(Lexicon, Hit))

MatchedCategories(text) ==
    {Lexicon[i].category : i \in {j \in 1..Len(Lexicon) : Lexicon[j].keyword \in text.kws}}

\* the matched categories no other matched category outweighs
DominantCategories(text) ==
    {c \in MatchedCategories(text) :
        \A d \in MatchedCategories(text) :
            CategoryScore(text, c) >= CategoryScore(text, d)}

\* the category of the first keyword, in lexicon order, the text contains
FirstCategory(text) ==
    LET hits == {j \in 1..Len(Lexicon) : Lexicon[j].keyword \in text.kws}
    IN  Lexicon[CHOOSE j \in hits : \A k \in hits : j <= k].category

IsFallbackCase ==
    /\ cEntry # "none"
    /\ KeywordScore(cText) >= 15
    /\ cOutcome.kind \in {"throws", "noJson", "badJson"}

\* what the fallback copies from the pre-filter: severity, confidence, isDisaster
FallbackCopiesSignal ==
    LET confidence == Min(KeywordScore(cText) * 5, 95)
    IN  /\ cResult.severity = (IF confidence > 70 THEN "medium" ELSE "low")
        /\ cResult.confidence = confidence
        /\ cResult.isDisaster = (KeywordScore(cText) >= 15)

\* C23 as stated: the fallback classification has the type the fixed table
\* gives the dominant matched category of the text, severity medium above
\* pre-filter confidence 70 and low otherwise, the pre-filter's confidence
\* and the warrants-classification boolean.
C23_FallbackFromDominantCategory ==
    IsFallbackCase =>
        /\ \E c \in DominantCategories(cText) :
              cResult.disasterType = mapCategoryToType(c)
        /\ FallbackCopiesSignal

\* C23 amended: the type is the one the fixed table gives the category of
\* the first lexicon keyword the text contains (null for a category outside
\* the table), whatever the weight of the other matched categories.
C23_FallbackFromFirstCategory ==
    IsFallbackCase =>
        /\ cResult.disasterType =
              (CASE FirstCategory(cText) = "seismic" -> "earthquake"
                 [] FirstCategory(cText) = "water" -> "flood"
                 [] FirstCategory(cText) = "weather" -> "storm"
                 [] FirstCategory(cText) = "fire" -> "wildfire"
                 [] FirstCategory(cText) = "winter" -> "blizzard"
                 [] FirstCategory(cText) = "geological" -> "landslide"
                 [] OTHER -> NULL)
        /\ FallbackCopiesSignal

\* one seismic keyword ahead of two water keywords: the fallback says earthquake
C23_Witness ==
    /\ cEntry = "stream"
    /\ cOutcome.kind = "noJson"
    /\ cText.kws = {"magnitude", "flood", "flooding"}
    /\ cResult.disasterType = "earthquake"
    /\ cResult.severity = "medium"
    /\ cResult.confidence = 95
    /\ cResult.isDisaster

\* C24: a text holding a location phrase ('in/near/at Capitalized', or
\* 'Capitalized County/City/State/Province') scores 5 more than the same text
\* without the phrase, and the pre-filter returns the phrase as the candidate
\* location, which the classification made without the model carries.
C24_LocationPhraseAddsFive ==
    cText.capLocation =>
        LET pre == performKeywordAnalysis(cText)
            plain == [cText EXCEPT !.capLocation = FALSE]
        IN  /\ KeywordScore(cText) = KeywordScore(plain) + 5
            /\ pre.location = "Location Phrase"
            /\ (cEntry = "stream" /\ cCalls = 0)
                  => cResult.location = "Location Phrase"

\* C25: the validation step of the data pipeline never lowers the
\* confidence of an event whose validation passed, never raises that of an
\* event whose validation did not pass, and leaves every confidence between
\* the floor 0.3 and the ceiling 1.0.
C25_PipelineConfidenceMonotoneBounded ==
    [][(pPc = "analysed" /\ pPc' = "validated") =>
          \A i \in 1..Len(pEvents) :
              /\ pEvents[i].confidence > 50
              /\ pEvents'[i].validated
                    => pEvents'[i].confidence >= pEvents[i].confidence
              /\ ~pEvents'[i].validated
                    => pEvents'[i].confidence <= pEvents[i].confidence
              /\ pEvents'[i].confidence >= 30
              /\ pEvents'[i].confidence <= 100]_vars

\* C26: whenever the model was called and the fallback classification is
\* returned, isDisaster is true, the confidence lies in [75,95] and the
\* severity is medium; the event record updated with it passes the
\* classifier's trigger (confidence above 70) and the validator handler's gate.
C26_FallbackAlwaysGoesToValidation ==
    (/\ cEntry # "none"
     /\ cCalls = 1
     /\ cOutcome.kind \in {"throws", "noJson", "badJson"}) =>
        /\ cResult.summary = "Potential disaster detected based on keyword analysis"
        /\ cResult.isDisaster
        /\ cResult.confidence >= 75 /\ cResult.confidence <= 95
        /\ cResult.severity = "medium"
        /\ cResult.confidence > 70
        /\ ValidationGate(AnalysisAttributes(cResult))

\* a text at the threshold, score 15, classified by the fallback at 75
C26_Witness ==
    /\ cEntry = "stream"
    /\ cOutcome.kind = "throws"
    /\ KeywordScore(cText) = 15
    /\ cResult.confidence = 75
    /\ cResult.severity = "medium"
    /\ ValidationGate(AnalysisAttributes(cResult))

\* ------------------------------------------------------------------------
\* C27: an alert record put into the events table never re-enters the
\* pipeline: whenever it waits in the stream of the analyzer handler it fails
\* that handler's condition (its type is not social_media_post), and whenever
\* it waits in the stream of the validator handler it fails that handler's
\* condition (it is not AI-analysed), so both handlers skip it
\* ------------------------------------------------------------------------
IsAlertRecord(record) ==
    /\ "type" \in DOMAIN record.NewImage
    /\ record.NewImage.type = "validated_disaster_alert"

C27_AlertRecordsAreSkipped ==
    /\ \A i \in 1..Len(aStream) :
          IsAlertRecord(aStream[i]) => ~AnalyzerGate(aStream[i])
    /\ \A i \in 1..Len(vStream) :
          IsAlertRecord(vStream[i]) =>
              /\ ~ValidatorGate(vStream[i])
              /\ ~HasTrue(vStream[i].NewImage, "aiAnalyzed")

\* an alert was put, and both handlers have gone through its record
C27_Witness ==
    /\ Len(alerts) = 1
    /\ lastValidation.alerted
    /\ aStream = <<>>
    /\ vStream = <<>>
    /\ modelCalls = 1

\* ------------------------------------------------------------------------
\* C28: an event is validated at most once and gets at most one alert. Once
\* the validator has updated an event (or put an alert for it), no record
\* of that event waiting in the validator's stream passes the handler's
\* condition again; the record caused by the validator's own update carries
\* weatherValidated = true
\* ------------------------------------------------------------------------
RecordOf(record, id) ==
    "id" \in DOMAIN record.NewImage /\ record.NewImage.id = id

C29_ResultPersistedBeforeAlert ==
    [][ /\ (Len(alerts') > Len(alerts)) =>
              LET id == alerts'[Len(alerts')].originalEventId
              IN  /\ lastValidation'.eventId = id
                  /\ lastValidation'.updated
                  /\ lastValidation'.updateOk
                  /\ id \in DOMAIN store'
                  /\ HasTrue(store'[id], "weatherValidated")
                  /\ HasTrue(store'[id], "disasterConfirmed")
        /\ (lastValidation'.ran /\ ~lastValidation'.updated)
              => ~lastValidation'.alerted ]_vars

\* an alert was put by a run whose write of the result succeeded
C29_Witness ==
    /\ lastValidation.ran
    /\ lastValidation.alerted
    /\ lastValidation.updated
    /\ Len(alerts) = 1
    /\ HasTrue(store[alerts[1].originalEventId], "disasterConfirmed")

\* ------------------------------------------------------------------------
\* C30: votes with confirmed = false have no influence on the fusion. The
\* fused confidence and disasterConfirmed of a vote list equal those of the
\* list with every unconfirmed vote removed, and those of the list with one
\* more unconfirmed vote inserted at any position
\* ------------------------------------------------------------------------
InsertVote(votes, k, vote) ==
    SubSeq(votes, 1, k) \o <<vote>> \o SubSeq(votes, k + 1, Len(votes))

SameDecision(a, b) ==
    a.confidence = b.confidence /\ a.disasterConfirmed = b.disasterConfirmed

C30_UnconfirmedVotesHaveNoInfluence ==
    fPc = "fused" =>
        LET votes == fIn.validationSources
        IN  /\ SameDecision(fOut,
                  Fuse([fIn EXCEPT !.validationSources = ConfirmedVotes(votes)]))
            /\ \A vote \in {v \in VoteSamples : ~v.confirmed} :
                  \A k \in 0..Len(votes) :
                      SameDecision(fOut,
                          Fuse([fIn EXCEPT !.validationSources =
                                               InsertVote(votes, k, vote)]))

\* one confirmed vote at 90 between unconfirmed votes at 150 and at -10
C30_Witness ==
    /\ fPc = "fused"
    /\ Len(fIn.validationSources) = 3
    /\ fIn.validationSources[1] = Vote("source", FALSE, 150)
    /\ fIn.validationSources[2] = Vote("source", TRUE, 90)
    /\ fIn.validationSources[3] = Vote("source", FALSE, -10)
    /\ fOut.confidence = RInt(90)
    /\ fOut.disasterConfirmed

====
